---------------------------- MODULE Spec2Model ----------------------------
(***************************************************************************)
(* TinyGraph (src/sketch.js): the scene (nodes, edges), the camera, the    *)
(* pointer and hotkey handlers, the per-frame update and the snapshot      *)
(* history, as a state machine.                                            *)
(*                                                                         *)
(* Numbers.  The program computes in floating point.  Here lengths are     *)
(* integers in fixed point, Px units to the pixel, zoom is an integer in   *)
(* thousandths (Zu to 1.0), coefficients are per mille, and every product  *)
(* with a fraction is truncated towards zero (TDiv).                       *)
(*                                                                         *)
(* Objects.  A Node is an object with identity: edges, selectedNode,       *)
(* hoveredNode and draggedNode hold references that can outlive the node's *)
(* membership of `nodes`.  heap maps a reference (a positive integer) to   *)
(* the object's fields; 0 is null.  After every handler the references are *)
(* renamed in order of first use and unreachable objects are dropped       *)
(* (Normalize): object names carry no meaning in the program.              *)
(*                                                                         *)
(* Time.  millis() is the variable now.  The program reads it only as a    *)
(* difference (now - createdAt), so after every handler time is counted    *)
(* from the creation of the oldest notification still queued, or from now  *)
(* when the queue is empty (Normalize).                                    *)
(*                                                                         *)
(* Handlers are written as operators from a state record to a state record *)
(* so that a handler's calls compose in the order the code makes them; an  *)
(* action commits the result of one whole handler (Step).                  *)
(***************************************************************************)
EXTENDS Integers, Sequences, FiniteSets, TLC

VARIABLES nodes, heap, edges, toasts, undoStack, redoStack, worldBounds,
          selectedNode, hoveredNode, draggedNode,
          isConnectingNode, isLabelsAlwaysVisible, isAllowOverlap,
          isBoundaryStatic, isDrawPreview,
          zoom, offsetX, offsetY, canvasX, canvasY,
          mouseX, mouseY, pmouseX, pmouseY, mouseIsPressed, mouseButton,
          spaceDown, width, height, now

vars == <<nodes, heap, edges, toasts, undoStack, redoStack, worldBounds,
          selectedNode, hoveredNode, draggedNode,
          isConnectingNode, isLabelsAlwaysVisible, isAllowOverlap,
          isBoundaryStatic, isDrawPreview,
          zoom, offsetX, offsetY, canvasX, canvasY,
          mouseX, mouseY, pmouseX, pmouseY, mouseIsPressed, mouseButton,
          spaceDown, width, height, now>>

-----------------------------------------------------------------------------
(* Fixed point *)

Px == 10 * 10
Zu == 10 * 100
Milli == 10 * 100

MAX_ZOOM == 5 * Zu
MIN_ZOOM == (2 * Zu) \div 10
HISTORY_LIMIT == 50

NodeRadius == 20 * Px
DefaultSpeed == Milli \div 10
DefaultFriction == (8 * Milli) \div 10
ToastDuration == 3000

Null == 0

Abs(a) == IF a < 0 THEN -a ELSE a
Min2(a, b) == IF a < b THEN a ELSE b
Max2(a, b) == IF a > b THEN a ELSE b

\* a / b for b > 0, truncated towards zero
TDiv(a, b) == IF a >= 0 THEN a \div b ELSE -((-a) \div b)

constrain(v, lo, hi) == Max2(Min2(v, hi), lo)

RECURSIVE SqrtIter(_, _, _)
SqrtIter(n, lo, hi) ==
  IF lo >= hi THEN lo
  ELSE LET mid == (lo + hi + 1) \div 2
       IN IF mid * mid <= n THEN SqrtIter(n, mid, hi)
          ELSE SqrtIter(n, lo, mid - 1)

\* floor of the square root (the search stays below the machine integer)
sqrt(n) == SqrtIter(n, 0, Min2(n, 46340))

-----------------------------------------------------------------------------
(* Arrays *)

Range(q) == {q[i] : i \in 1..Len(q)}

\* Array.prototype.indexOf: the 0-based position of the first match, or -1
indexOf(q, e) ==
  IF \E i \in 1..Len(q) : q[i] = e
  THEN (CHOOSE i \in 1..Len(q) : q[i] = e /\ \A j \in 1..(i - 1) : q[j] # e) - 1
  ELSE -1

\* Array.prototype.splice(start, 1): a negative start counts from the end
splice1(q, start) ==
  LET from == IF start < 0 THEN Max2(Len(q) + start, 0) ELSE Min2(start, Len(q))
  IN [i \in 1..(IF from < Len(q) THEN Len(q) - 1 ELSE Len(q)) |->
        IF i <= from THEN q[i] ELSE q[i + 1]]

\* Array.prototype.shift
shift(q) == IF Len(q) = 0 THEN q ELSE Tail(q)

\* Array.prototype.pop: the array without its last element
pop(q) == IF Len(q) = 0 THEN q ELSE SubSeq(q, 1, Len(q) - 1)

Last(q) == q[Len(q)]

-----------------------------------------------------------------------------
(* The program state as one record, and the commit of a handler's result *)

State ==
  [nodes |-> nodes, heap |-> heap, edges |-> edges, toasts |-> toasts,
   undoStack |-> undoStack, redoStack |-> redoStack, worldBounds |-> worldBounds,
   selectedNode |-> selectedNode, hoveredNode |-> hoveredNode,
   draggedNode |-> draggedNode, isConnectingNode |-> isConnectingNode,
   isLabelsAlwaysVisible |-> isLabelsAlwaysVisible,
   isAllowOverlap |-> isAllowOverlap, isBoundaryStatic |-> isBoundaryStatic,
   isDrawPreview |-> isDrawPreview,
   zoom |-> zoom, offsetX |-> offsetX, offsetY |-> offsetY,
   canvasX |-> canvasX, canvasY |-> canvasY,
   mouseX |-> mouseX, mouseY |-> mouseY, pmouseX |-> pmouseX, pmouseY |-> pmouseY,
   mouseIsPressed |-> mouseIsPressed, mouseButton |-> mouseButton,
   spaceDown |-> spaceDown,
   width |-> width, height |-> height, now |-> now]

RECURSIVE Dedup(_, _)
Dedup(q, seen) ==
  IF q = <<>> THEN <<>>
  ELSE IF Head(q) \in seen \/ Head(q) = Null THEN Dedup(Tail(q), seen)
       ELSE <<Head(q)>> \o Dedup(Tail(q), seen \cup {Head(q)})

RECURSIVE Endpoints(_)
Endpoints(es) ==
  IF es = <<>> THEN <<>> ELSE <<Head(es)[1], Head(es)[2]>> \o Endpoints(Tail(es))

\* The references the program can still reach, in order of first use
Reachable(s) ==
  Dedup(s.nodes \o Endpoints(s.edges)
          \o <<s.selectedNode, s.hoveredNode, s.draggedNode>>, {})

\* Rename references 1..k in order of first use, drop unreachable objects,
\* and count time from the oldest queued notification
Normalize(s) ==
  LET order == Reachable(s)
      name(r) == IF r = Null THEN Null ELSE indexOf(order, r) + 1
      epoch == IF s.toasts = <<>> THEN s.now ELSE s.toasts[1].createdAt
  IN [s EXCEPT
        !.now = @ - epoch,
        !.toasts = [i \in 1..Len(s.toasts) |->
                      [s.toasts[i] EXCEPT !.createdAt = @ - epoch]],
        !.nodes = [i \in 1..Len(s.nodes) |-> name(s.nodes[i])],
        !.edges = [i \in 1..Len(s.edges) |->
                     <<name(s.edges[i][1]), name(s.edges[i][2])>>],
        !.selectedNode = name(s.selectedNode),
        !.hoveredNode = name(s.hoveredNode),
        !.draggedNode = name(s.draggedNode),
        !.heap = [k \in 1..Len(order) |-> s.heap[order[k]]]]

\* The next state is the record t
Assign(t) ==
     /\ nodes' = t.nodes
     /\ heap' = t.heap
     /\ edges' = t.edges
     /\ toasts' = t.toasts
     /\ undoStack' = t.undoStack
     /\ redoStack' = t.redoStack
     /\ worldBounds' = t.worldBounds
     /\ selectedNode' = t.selectedNode
     /\ hoveredNode' = t.hoveredNode
     /\ draggedNode' = t.draggedNode
     /\ isConnectingNode' = t.isConnectingNode
     /\ isLabelsAlwaysVisible' = t.isLabelsAlwaysVisible
     /\ isAllowOverlap' = t.isAllowOverlap
     /\ isBoundaryStatic' = t.isBoundaryStatic
     /\ isDrawPreview' = t.isDrawPreview
     /\ zoom' = t.zoom
     /\ offsetX' = t.offsetX
     /\ offsetY' = t.offsetY
     /\ canvasX' = t.canvasX
     /\ canvasY' = t.canvasY
     /\ mouseX' = t.mouseX
     /\ mouseY' = t.mouseY
     /\ pmouseX' = t.pmouseX
     /\ pmouseY' = t.pmouseY
     /\ mouseIsPressed' = t.mouseIsPressed
     /\ mouseButton' = t.mouseButton
     /\ spaceDown' = t.spaceDown
     /\ width' = t.width
     /\ height' = t.height
     /\ now' = t.now

-----------------------------------------------------------------------------
(* class Node *)

\* "node " + id
Label(id) == <<"node ", id>>

NewNode(s, x, y, id) ==
  [x |-> x, y |-> y, vx |-> 0, vy |-> 0, r |-> NodeRadius, id |-> id,
   label |-> Label(id), tx |-> x, ty |-> y,
   speed |-> DefaultSpeed, friction |-> DefaultFriction,
   labelVisible |-> s.isLabelsAlwaysVisible]

\* A reference no object of the heap has
FreshRef(h) == CHOOSE r \in 1..(Cardinality(DOMAIN h) + 1) : r \notin DOMAIN h

SetHeap(h, r, obj) == [k \in DOMAIN h \cup {r} |-> IF k = r THEN obj ELSE h[k]]

-----------------------------------------------------------------------------
(* Notifications *)

createToast(s, message) ==
  [s EXCEPT !.toasts = Append(@, [message |-> message, createdAt |-> s.now,
                                  duration |-> ToastDuration])]

-----------------------------------------------------------------------------
(* History management *)

createSnapshot(s) ==
  [nodes |-> [i \in 1..Len(s.nodes) |->
                LET n == s.heap[s.nodes[i]]
                IN [x |-> n.x, y |-> n.y, id |-> n.id, label |-> n.label,
                    speed |-> n.speed, friction |-> n.friction,
                    tx |-> n.tx, ty |-> n.ty]],
   edges |-> [i \in 1..Len(s.edges) |->
                <<s.heap[s.edges[i][1]].id, s.heap[s.edges[i][2]].id>>]]

\* nodes.find(n => n.id === id): the first node with that id, or null
FindById(ns, h, id) ==
  IF \E i \in 1..Len(ns) : h[ns[i]].id = id
  THEN ns[CHOOSE i \in 1..Len(ns) :
            h[ns[i]].id = id /\ \A j \in 1..(i - 1) : h[ns[j]].id # id]
  ELSE Null

\* new Node(nData.x, nData.y, nData.id) followed by Object.assign(newNode, nData)
RestoredNode(s, nData) ==
  [NewNode(s, nData.x, nData.y, nData.id) EXCEPT
     !.x = nData.x, !.y = nData.y, !.id = nData.id, !.label = nData.label,
     !.speed = nData.speed, !.friction = nData.friction,
     !.tx = nData.tx, !.ty = nData.ty]

\* A variant of restoreFromSnapshot that leaves selection, hover, drag and
\* connect mode as they are
restoreKeepTransients(s, snapshot) ==
  LET s1 == s
  IN IF "nodes" \notin DOMAIN snapshot THEN [st |-> s1, threw |-> TRUE]
     ELSE
       LET k == Len(snapshot.nodes)
           base == Cardinality(DOMAIN s.heap)
           newNodes == [i \in 1..k |-> base + i]
           newHeap == [r \in 1..(base + k) |->
                         IF r <= base THEN s.heap[r]
                         ELSE RestoredNode(s1, snapshot.nodes[r - base])]
           s2 == [s1 EXCEPT !.nodes = newNodes, !.heap = newHeap]
       IN IF "edges" \notin DOMAIN snapshot THEN [st |-> s2, threw |-> TRUE]
          ELSE
            LET resolved == [i \in 1..Len(snapshot.edges) |->
                               <<FindById(newNodes, newHeap, snapshot.edges[i][1]),
                                 FindById(newNodes, newHeap, snapshot.edges[i][2])>>]
                kept == SelectSeq(resolved, LAMBDA e : e[1] # Null /\ e[2] # Null)
            IN [st |-> [s2 EXCEPT !.edges = kept], threw |-> FALSE]

\* A variant of restoreFromSnapshot that drops every edge when one of them
\* cannot be resolved
restoreAllOrNoEdges(s, snapshot) ==
  LET s1 == [s EXCEPT !.selectedNode = Null, !.draggedNode = Null,
                      !.hoveredNode = Null, !.isConnectingNode = FALSE]
  IN IF "nodes" \notin DOMAIN snapshot THEN [st |-> s1, threw |-> TRUE]
     ELSE
       LET k == Len(snapshot.nodes)
           base == Cardinality(DOMAIN s.heap)
           newNodes == [i \in 1..k |-> base + i]
           newHeap == [r \in 1..(base + k) |->
                         IF r <= base THEN s.heap[r]
                         ELSE RestoredNode(s1, snapshot.nodes[r - base])]
           s2 == [s1 EXCEPT !.nodes = newNodes, !.heap = newHeap]
       IN IF "edges" \notin DOMAIN snapshot THEN [st |-> s2, threw |-> TRUE]
          ELSE
            LET resolved == [i \in 1..Len(snapshot.edges) |->
                               <<FindById(newNodes, newHeap, snapshot.edges[i][1]),
                                 FindById(newNodes, newHeap, snapshot.edges[i][2])>>]
                kept == IF \A i \in 1..Len(resolved) :
                               resolved[i][1] # Null /\ resolved[i][2] # Null
                        THEN resolved ELSE <<>>
            IN [st |-> [s2 EXCEPT !.edges = kept], threw |-> FALSE]

\* The result is the state reached and whether a TypeError was thrown on the
\* way (snapshot.nodes or snapshot.edges undefined, a record without that
\* field): what was assigned before the throw stays assigned.
restoreFromSnapshot(s, snapshot) ==
  LET s1 == [s EXCEPT !.selectedNode = Null, !.draggedNode = Null,
                      !.hoveredNode = Null, !.isConnectingNode = FALSE]
  IN IF "nodes" \notin DOMAIN snapshot THEN [st |-> s1, threw |-> TRUE]
     ELSE
       LET k == Len(snapshot.nodes)
           base == Cardinality(DOMAIN s.heap)
           newNodes == [i \in 1..k |-> base + i]
           newHeap == [r \in 1..(base + k) |->
                         IF r <= base THEN s.heap[r]
                         ELSE RestoredNode(s1, snapshot.nodes[r - base])]
           s2 == [s1 EXCEPT !.nodes = newNodes, !.heap = newHeap]
       IN IF "edges" \notin DOMAIN snapshot THEN [st |-> s2, threw |-> TRUE]
          ELSE
            LET resolved == [i \in 1..Len(snapshot.edges) |->
                               <<FindById(newNodes, newHeap, snapshot.edges[i][1]),
                                 FindById(newNodes, newHeap, snapshot.edges[i][2])>>]
                kept == SelectSeq(resolved, LAMBDA e : e[1] # Null /\ e[2] # Null)
            IN [st |-> [s2 EXCEPT !.edges = kept], threw |-> FALSE]

\* A variant of saveState that records the scene twice
saveStateTwice(s) ==
  LET pushed == Append(Append(s.undoStack, createSnapshot(s)), createSnapshot(s))
  IN [s EXCEPT !.redoStack = <<>>,
               !.undoStack = IF Len(pushed) > HISTORY_LIMIT THEN shift(pushed)
                             ELSE pushed]

\* A variant of saveState that keeps the redo stack
saveStateKeepRedo(s) ==
  LET pushed == Append(s.undoStack, createSnapshot(s))
  IN [s EXCEPT !.undoStack = IF Len(pushed) > HISTORY_LIMIT THEN shift(pushed)
                             ELSE pushed]

\* A variant of saveState that never evicts
saveStateNoEvict(s) ==
  [s EXCEPT !.redoStack = <<>>,
            !.undoStack = Append(s.undoStack, createSnapshot(s))]

saveState(s) ==
  LET pushed == Append(s.undoStack, createSnapshot(s))
  IN [s EXCEPT !.redoStack = <<>>,
               !.undoStack = IF Len(pushed) > HISTORY_LIMIT THEN shift(pushed)
                             ELSE pushed]

\* A variant of undo that refuses without a notification
undoSilent(s) ==
  IF Len(s.undoStack) <= 1 THEN s
  ELSE LET currentState == Last(s.undoStack)
           s1 == [s EXCEPT !.undoStack = pop(@),
                           !.redoStack = Append(@, currentState)]
           prevState == Last(s1.undoStack)
       IN restoreFromSnapshot(s1, prevState).st

undo(s) ==
  IF Len(s.undoStack) <= 1 THEN createToast(s, <<"Nothing to undo.">>)
  ELSE LET currentState == Last(s.undoStack)
           s1 == [s EXCEPT !.undoStack = pop(@),
                           !.redoStack = Append(@, currentState)]
           prevState == Last(s1.undoStack)
       IN restoreFromSnapshot(s1, prevState).st

redo(s) ==
  IF Len(s.redoStack) = 0 THEN createToast(s, <<"Nothing to redo.">>)
  ELSE LET nextState == Last(s.redoStack)
           s1 == [s EXCEPT !.redoStack = pop(@),
                           !.undoStack = Append(@, nextState)]
       IN restoreFromSnapshot(s1, nextState).st

-----------------------------------------------------------------------------
(* Camera and coordinates *)

screenToWorld(s, mx, my) ==
  [x |-> TDiv((mx - s.offsetX) * Zu, s.zoom),
   y |-> TDiv((my - s.offsetY) * Zu, s.zoom)]

applyZoomUnclamped(s, delta, pivotX, pivotY) ==
  LET newZoom == s.zoom + delta
      world == screenToWorld(s, pivotX, pivotY)
  IN [s EXCEPT !.offsetX = pivotX - TDiv(world.x * newZoom, Zu),
               !.offsetY = pivotY - TDiv(world.y * newZoom, Zu),
               !.zoom = newZoom]

applyZoom(s, delta, pivotX, pivotY) ==
  LET newZoom == constrain(s.zoom + delta, MIN_ZOOM, MAX_ZOOM)
      world == screenToWorld(s, pivotX, pivotY)
  IN [s EXCEPT !.offsetX = pivotX - TDiv(world.x * newZoom, Zu),
               !.offsetY = pivotY - TDiv(world.y * newZoom, Zu),
               !.zoom = newZoom]

getCanvasMousePos(s) ==
  LET world == screenToWorld(s, s.mouseX, s.mouseY)
  IN [s EXCEPT !.canvasX = world.x, !.canvasY = world.y]

updateWorldBounds(s) ==
  IF s.isBoundaryStatic
  THEN [s EXCEPT !.worldBounds = [left |-> 0, top |-> 0,
                                  right |-> s.width, bottom |-> s.height]]
  ELSE LET topLeft == screenToWorld(s, 0, 0)
           bottomRight == screenToWorld(s, s.width, s.height)
       IN [s EXCEPT !.worldBounds = [left |-> topLeft.x, top |-> topLeft.y,
                                     right |-> bottomRight.x,
                                     bottom |-> bottomRight.y]]

home(s) == [s EXCEPT !.zoom = Zu, !.offsetX = 0, !.offsetY = 0]

ZoomStep == Zu \div 10

zoomIn(s) == applyZoom(s, ZoomStep, TDiv(s.width, 2), TDiv(s.height, 2))

zoomOut(s) == applyZoom(s, -ZoomStep, TDiv(s.width, 2), TDiv(s.height, 2))

\* zoomSlider.input: v is the value the slider was moved to
handleZoom(s, v) == applyZoom(s, v - s.zoom, TDiv(s.width, 2), TDiv(s.height, 2))

\* event.delta * zoomSensitivity, zoomSensitivity = -0.001
mouseWheel(s, delta) == applyZoom(s, TDiv(-delta * Zu, 1000), s.mouseX, s.mouseY)

-----------------------------------------------------------------------------
(* Logic and services *)

\* A variant that leaves the ids as they are
keepNodesID(s) == s

updateNodesID(s) ==
  [s EXCEPT !.heap = [r \in DOMAIN s.heap |->
                        IF \E i \in 1..Len(s.nodes) : s.nodes[i] = r
                        THEN [s.heap[r] EXCEPT !.id = indexOf(s.nodes, r) + 1]
                        ELSE s.heap[r]]]

EdgeExists(es, a, b) ==
  \E i \in 1..Len(es) : \/ es[i][1] = a /\ es[i][2] = b
                        \/ es[i][1] = b /\ es[i][2] = a

\* A variant of attemptConnection that does not look for an existing edge
attemptConnectionUnchecked(s, targetNode) ==
  IF s.selectedNode = Null \/ targetNode = Null \/ s.selectedNode = targetNode
  THEN s
  ELSE LET s1 == createToast(
                   saveState([s EXCEPT
                                !.edges = Append(@, <<s.selectedNode, targetNode>>)]),
                   <<"Connected", s.heap[s.selectedNode].id,
                     s.heap[targetNode].id>>)
       IN [s1 EXCEPT !.isConnectingNode = FALSE, !.selectedNode = Null]

attemptConnection(s, targetNode) ==
  IF s.selectedNode = Null \/ targetNode = Null \/ s.selectedNode = targetNode
  THEN s
  ELSE LET s1 == IF ~EdgeExists(s.edges, s.selectedNode, targetNode)
                 THEN createToast(
                        saveState([s EXCEPT
                                     !.edges = Append(@, <<s.selectedNode, targetNode>>)]),
                        <<"Connected", s.heap[s.selectedNode].id,
                          s.heap[targetNode].id>>)
                 ELSE createToast(s, <<"These nodes are already connected.">>)
       IN [s1 EXCEPT !.isConnectingNode = FALSE, !.selectedNode = Null]

handleConnectButton(s) ==
  IF s.selectedNode = Null
  THEN createToast(s, <<"Please select a starting node first.">>)
  ELSE [s EXCEPT !.isConnectingNode = ~@]

connectModeOn(s) == IF ~s.isConnectingNode THEN handleConnectButton(s) ELSE s

connectModeOff(s) ==
  IF s.isConnectingNode
  THEN [s EXCEPT !.isConnectingNode = FALSE, !.selectedNode = Null]
  ELSE s

handleLabelButton(s) ==
  LET v == ~s.isLabelsAlwaysVisible
  IN [s EXCEPT !.isLabelsAlwaysVisible = v,
               !.heap = [r \in DOMAIN s.heap |->
                           IF r \in Range(s.nodes)
                           THEN [s.heap[r] EXCEPT !.labelVisible = v]
                           ELSE s.heap[r]]]

handleOverlapButton(s) == [s EXCEPT !.isAllowOverlap = ~@]

handleBoundaryButton(s) == [s EXCEPT !.isBoundaryStatic = ~@]

handlePreviewButton(s) == [s EXCEPT !.isDrawPreview = ~@]

saveGraph(s) == createToast(s, <<"Graph saved as my-tiny-graph.json">>)

-----------------------------------------------------------------------------
(* Pointer handlers *)

OutsideCanvas(s) ==
  s.mouseX < 0 \/ s.mouseX > s.width \/ s.mouseY < 0 \/ s.mouseY > s.height

\* A variant of the right-click branch that drops only the edges leaving the
\* hovered node
DeleteHoveredOutgoing(s) ==
  LET indexH == indexOf(s.nodes, s.hoveredNode)
      indexS == indexOf(s.nodes, s.selectedNode)
      s1 == [s EXCEPT
               !.nodes = splice1(@, indexH),
               !.edges = SelectSeq(@, LAMBDA e : e[1] # s.hoveredNode)]
      s2 == IF indexS = indexH THEN [s1 EXCEPT !.selectedNode = Null] ELSE s1
  IN saveState(updateNodesID(s2))

\* The right-click branch of mousePressed, entered with hoveredNode non-null
DeleteHovered(s) ==
  LET indexH == indexOf(s.nodes, s.hoveredNode)
      indexS == indexOf(s.nodes, s.selectedNode)
      s1 == [s EXCEPT
               !.nodes = splice1(@, indexH),
               !.edges = SelectSeq(@, LAMBDA e : e[1] # s.hoveredNode
                                                 /\ e[2] # s.hoveredNode)]
      s2 == IF indexS = indexH THEN [s1 EXCEPT !.selectedNode = Null] ELSE s1
  IN saveState(updateNodesID(s2))

\* The create branch of mousePressed
CreateNode(s) ==
  LET r == FreshRef(s.heap)
      newNode == NewNode(s, s.canvasX, s.canvasY, Len(s.nodes) + 1)
  IN saveState([s EXCEPT !.heap = SetHeap(@, r, newNode),
                         !.nodes = Append(@, r),
                         !.selectedNode = Null,
                         !.isConnectingNode = FALSE])

\* A variant of mousePressed that begins a drag only over the node that was
\* selected before the press
mousePressedSelectFirst(s) ==
  IF OutsideCanvas(s) THEN s
  ELSE IF s.mouseButton = "right"
  THEN IF s.hoveredNode # Null THEN DeleteHovered(s) ELSE s
  ELSE
    LET s1 == IF s.hoveredNode = Null /\ ~s.spaceDown THEN CreateNode(s)
              ELSE IF ~s.isConnectingNode
                   THEN [s EXCEPT !.selectedNode = s.hoveredNode]
                   ELSE attemptConnection(s, s.hoveredNode)
    IN IF s.selectedNode = s.hoveredNode /\ s.hoveredNode # Null
          /\ ~s.isConnectingNode
       THEN [s1 EXCEPT !.draggedNode = s1.selectedNode]
       ELSE s1

mousePressed(s) ==
  IF OutsideCanvas(s) THEN s
  ELSE IF s.mouseButton = "right"
  THEN IF s.hoveredNode # Null THEN DeleteHovered(s) ELSE s
  ELSE
    LET s1 == IF s.hoveredNode = Null /\ ~s.spaceDown THEN CreateNode(s)
              ELSE IF ~s.isConnectingNode
                   THEN [s EXCEPT !.selectedNode = s.hoveredNode]
                   ELSE attemptConnection(s, s.hoveredNode)
    IN IF s1.selectedNode = s1.hoveredNode /\ s1.hoveredNode # Null
          /\ ~s1.isConnectingNode
       THEN [s1 EXCEPT !.draggedNode = s1.selectedNode]
       ELSE s1

mouseDragged(s) ==
  IF OutsideCanvas(s) THEN s
  ELSE IF s.draggedNode # Null
  THEN [s EXCEPT !.heap[s.draggedNode].tx = s.canvasX,
                 !.heap[s.draggedNode].ty = s.canvasY]
  ELSE IF s.spaceDown
  THEN [s EXCEPT !.offsetX = @ + (s.mouseX - s.pmouseX),
                 !.offsetY = @ + (s.mouseY - s.pmouseY)]
  ELSE s

mouseReleased(s) ==
  IF s.draggedNode # Null THEN saveState([s EXCEPT !.draggedNode = Null])
  ELSE s

windowResized(s, w, h) ==
  [s EXCEPT !.width = w, !.height = h,
            !.heap = [r \in DOMAIN s.heap |->
                        IF r \in Range(s.nodes)
                        THEN [s.heap[r] EXCEPT !.tx = constrain(@, 0, w),
                                               !.ty = constrain(@, 0, h)]
                        ELSE s.heap[r]]]

-----------------------------------------------------------------------------
(* File management *)

\* file.data is the text of the file; JSON.parse throws when parses is FALSE,
\* and otherwise yields the record doc.
\* A variant of handleFileLoad that leaves the camera where it is
handleFileLoadNoHome(s, file) ==
  IF file.type # "application" \/ file.subtype # "json"
  THEN createToast(s, <<"Error: Please select a valid .json file.">>)
  ELSE IF ~file.parses
  THEN createToast(s, <<"Error: Could not parse the JSON file.">>)
  ELSE LET r == restoreFromSnapshot(s, file.doc)
       IN IF r.threw
          THEN createToast(r.st, <<"Error: Could not parse the JSON file.">>)
          ELSE LET s2 == [r.st EXCEPT !.undoStack = <<createSnapshot(r.st)>>,
                                      !.redoStack = <<>>]
               IN createToast(s2, <<"Graph loaded successfully!">>)

handleFileLoad(s, file) ==
  IF file.type # "application" \/ file.subtype # "json"
  THEN createToast(s, <<"Error: Please select a valid .json file.">>)
  ELSE IF ~file.parses
  THEN createToast(s, <<"Error: Could not parse the JSON file.">>)
  ELSE LET r == restoreFromSnapshot(s, file.doc)
       IN IF r.threw
          THEN createToast(r.st, <<"Error: Could not parse the JSON file.">>)
          ELSE LET s1 == home(r.st)
                   s2 == [s1 EXCEPT !.undoStack = <<createSnapshot(s1)>>,
                                    !.redoStack = <<>>]
               IN createToast(s2, <<"Graph loaded successfully!">>)

-----------------------------------------------------------------------------
(* The frame: draw() *)

\* dist(n.x, n.y, px, py) < n.r, compared on the squares (a point further
\* than r on one axis is not squared)
isHovered(n, px, py) ==
  /\ Abs(n.x - px) < n.r
  /\ Abs(n.y - py) < n.r
  /\ (n.x - px) * (n.x - px) + (n.y - py) * (n.y - py) < n.r * n.r

updateHoveredNode(s) ==
  LET hit(i) == isHovered(s.heap[s.nodes[i]], s.canvasX, s.canvasY)
  IN [s EXCEPT !.hoveredNode =
        IF \E i \in 1..Len(s.nodes) : hit(i)
        THEN s.nodes[CHOOSE i \in 1..Len(s.nodes) :
                       hit(i) /\ \A j \in 1..(i - 1) : ~hit(j)]
        ELSE Null]

MaxSpeed == 5 * Px
MinDist == Px \div 10

\* The force one other node adds in applyRepulsion, as <<fx, fy>>
RepulsionFrom(n, other) ==
  LET dx == n.x - other.x
      dy == n.y - other.y
      near == Abs(dx) < n.r * 2 /\ Abs(dy) < n.r * 2
      d == IF near THEN sqrt(dx * dx + dy * dy) ELSE n.r * 2
  IN IF d < n.r * 2 /\ d > MinDist
     THEN LET overlap == n.r * 2 - d
              force == TDiv(overlap, 2)
          IN <<TDiv(dx * force, d), TDiv(dy * force, d)>>
     ELSE <<0, 0>>

RECURSIVE SumRepulsion(_, _, _, _)
SumRepulsion(h, others, me, i) ==
  IF i > Len(others) THEN <<0, 0>>
  ELSE LET rest == SumRepulsion(h, others, me, i + 1)
           f == IF others[i] = me THEN <<0, 0>>
                ELSE RepulsionFrom(h[me], h[others[i]])
       IN <<f[1] + rest[1], f[2] + rest[2]>>

\* Node.applyRepulsion: the node with its velocity changed
applyRepulsion(h, others, me) ==
  LET f == SumRepulsion(h, others, me, 1)
  IN [h[me] EXCEPT !.vx = constrain(@ + f[1], -MaxSpeed, MaxSpeed),
                   !.vy = constrain(@ + f[2], -MaxSpeed, MaxSpeed)]

\* Node.applyBoundary, push_strength = 0.1
applyBoundary(n, wb) ==
  LET n1 == IF n.x - n.r < wb.left
            THEN [n EXCEPT !.vx = @ + TDiv(wb.left - n.x + n.r, 10)] ELSE n
      n2 == IF n.y - n.r < wb.top
            THEN [n1 EXCEPT !.vy = @ + TDiv(wb.top - n.y + n.r, 10)] ELSE n1
      n3 == IF n.x + n.r > wb.right
            THEN [n2 EXCEPT !.vx = @ - TDiv(n.x + n.r - wb.right, 10)] ELSE n2
  IN IF n.y + n.r > wb.bottom
     THEN [n3 EXCEPT !.vy = @ - TDiv(n.y + n.r - wb.bottom, 10)] ELSE n3

\* Node.update: spring towards the target, friction, then the move
update(n) ==
  LET vx1 == n.vx + TDiv((n.tx - n.x) * n.speed, Milli)
      vy1 == n.vy + TDiv((n.ty - n.y) * n.speed, Milli)
      vx2 == TDiv(vx1 * n.friction, Milli)
      vy2 == TDiv(vy1 * n.friction, Milli)
  IN [n EXCEPT !.vx = vx2, !.vy = vy2, !.x = @ + vx2, !.y = @ + vy2]

\* The first loop changes velocities only, so every node sees the positions
\* the frame started with; the second loop moves each node.
drawNodes(s) ==
  LET forced(r) ==
        applyBoundary(IF s.isAllowOverlap = FALSE
                      THEN applyRepulsion(s.heap, s.nodes, r) ELSE s.heap[r],
                      s.worldBounds)
  IN [s EXCEPT !.heap = [r \in DOMAIN s.heap |->
                           IF r \in Range(s.nodes) THEN update(forced(r))
                           ELSE s.heap[r]]]

\* A variant of the loop of drawToasts that runs first to last, i (counted
\* from 0) going on to i + 1 after a splice as well
RECURSIVE ToastLoopForward(_, _, _)
ToastLoopForward(q, ms, i) ==
  IF i >= Len(q) THEN q
  ELSE IF ms - q[i + 1].createdAt > q[i + 1].duration
       THEN ToastLoopForward(splice1(q, i), ms, i + 1)
       ELSE ToastLoopForward(q, ms, i + 1)

\* The loop of drawToasts, from the index i (counted from 0) down to 0: an
\* entry with now - createdAt > duration is spliced out
RECURSIVE ToastLoop(_, _, _)
ToastLoop(q, ms, i) ==
  IF i < 0 THEN q
  ELSE IF ms - q[i + 1].createdAt > q[i + 1].duration
       THEN ToastLoop(splice1(q, i), ms, i - 1)
       ELSE ToastLoop(q, ms, i - 1)

\* A variant of drawToasts whose loop runs first to last
drawToastsForward(s) == [s EXCEPT !.toasts = ToastLoopForward(@, s.now, 0)]

drawToasts(s) == [s EXCEPT !.toasts = ToastLoop(@, s.now, Len(@) - 1)]

\* draw(), and p5's update of pmouseX, pmouseY when the frame ends
draw(s) ==
  LET s1 == updateHoveredNode(updateWorldBounds(getCanvasMousePos(s)))
      s2 == drawToasts(drawNodes(s1))
  IN [s2 EXCEPT !.pmouseX = s.mouseX, !.pmouseY = s.mouseY]

-----------------------------------------------------------------------------
(* Hotkeys *)

\* keyPressed with the combo getKeyCombo built: the registered action, if any
keyPressed(s, combo) ==
  CASE combo = "escape" -> connectModeOff(s)
    [] combo = "c" -> connectModeOn(s)
    [] combo = "l" -> handleLabelButton(s)
    [] combo = "o" -> handleOverlapButton(s)
    [] combo = "pageup" -> zoomIn(s)
    [] combo = "pagedown" -> zoomOut(s)
    [] combo = "home" -> home(s)
    [] combo = "ctrl+z" -> undo(s)
    [] combo = "ctrl+y" -> redo(s)
    [] OTHER -> s

-----------------------------------------------------------------------------
(* The state when setup() returns *)

CanvasW == 400 * Px
CanvasH == 300 * Px

Globals ==
  [nodes |-> <<>>, heap |-> <<>>, edges |-> <<>>, toasts |-> <<>>,
   undoStack |-> <<>>, redoStack |-> <<>>,
   worldBounds |-> [left |-> 0, right |-> 0, top |-> 0, bottom |-> 0],
   selectedNode |-> Null, hoveredNode |-> Null, draggedNode |-> Null,
   isConnectingNode |-> FALSE, isLabelsAlwaysVisible |-> FALSE,
   isAllowOverlap |-> FALSE, isBoundaryStatic |-> FALSE, isDrawPreview |-> TRUE,
   zoom |-> Zu, offsetX |-> 0, offsetY |-> 0, canvasX |-> 0, canvasY |-> 0,
   mouseX |-> 0, mouseY |-> 0, pmouseX |-> 0, pmouseY |-> 0,
   mouseIsPressed |-> FALSE, mouseButton |-> "none", spaceDown |-> FALSE,
   width |-> CanvasW, height |-> CanvasH, now |-> 0]

setup(s) == saveState(s)

\* The pointer is over the canvas and the first frame has been drawn
Started(p) == draw([setup(Globals) EXCEPT !.mouseX = p[1], !.mouseY = p[2]])

InitAt(p) ==
  \E t \in {Started(p)} :
     /\ nodes = t.nodes
     /\ heap = t.heap
     /\ edges = t.edges
     /\ toasts = t.toasts
     /\ undoStack = t.undoStack
     /\ redoStack = t.redoStack
     /\ worldBounds = t.worldBounds
     /\ selectedNode = t.selectedNode
     /\ hoveredNode = t.hoveredNode
     /\ draggedNode = t.draggedNode
     /\ isConnectingNode = t.isConnectingNode
     /\ isLabelsAlwaysVisible = t.isLabelsAlwaysVisible
     /\ isAllowOverlap = t.isAllowOverlap
     /\ isBoundaryStatic = t.isBoundaryStatic
     /\ isDrawPreview = t.isDrawPreview
     /\ zoom = t.zoom
     /\ offsetX = t.offsetX
     /\ offsetY = t.offsetY
     /\ canvasX = t.canvasX
     /\ canvasY = t.canvasY
     /\ mouseX = t.mouseX
     /\ mouseY = t.mouseY
     /\ pmouseX = t.pmouseX
     /\ pmouseY = t.pmouseY
     /\ mouseIsPressed = t.mouseIsPressed
     /\ mouseButton = t.mouseButton
     /\ spaceDown = t.spaceDown
     /\ width = t.width
     /\ height = t.height
     /\ now = t.now

-----------------------------------------------------------------------------
(* Bounds of the exploration *)

MaxNodes == 3
MaxUndo == 4
MaxToasts == 1

\* One tick of the clock, longer than a notification lives
TickMs == ToastDuration + 1

\* Few notifications queued
Brief(r) == Len(r.toasts) <= MaxToasts

Bounded(r) ==
  /\ Len(r.nodes) <= MaxNodes
  /\ Len(r.undoStack) <= MaxUndo
  /\ Brief(r)

\* The handler's result r becomes the next state, within the bounds
Step(r) == \E t \in {Normalize(r)} : Bounded(t) /\ Assign(t)

\* The same, with no bound on the scene or the history
StepDeep(r) == \E t \in {Normalize(r)} : Brief(t) /\ Assign(t)

-----------------------------------------------------------------------------
(* Events.  p5 sets mouseX, mouseY, mouseButton, mouseIsPressed and        *)
(* keyIsDown before it calls the sketch's handler.  The user holds one     *)
(* mouse button at a time.                                                 *)

MouseMoved(p) ==
  /\ ~mouseIsPressed
  /\ <<mouseX, mouseY>> # p
  /\ Step([State EXCEPT !.mouseX = p[1], !.mouseY = p[2]])

MouseDragged(p) ==
  /\ mouseIsPressed
  /\ Step(mouseDragged([State EXCEPT !.mouseX = p[1], !.mouseY = p[2]]))

\* The button b goes down
MousePressed(b) ==
  /\ ~mouseIsPressed
  /\ Step(mousePressed([State EXCEPT !.mouseIsPressed = TRUE,
                                     !.mouseButton = b]))

\* The button that is down goes up
MouseReleased ==
  /\ mouseIsPressed
  /\ Step(mouseReleased([State EXCEPT !.mouseIsPressed = FALSE]))

KeyPressed(combo) ==
  Step(keyPressed([State EXCEPT !.spaceDown = IF combo = "space" THEN TRUE ELSE @],
                  combo))

KeyReleasedSpace ==
  /\ spaceDown
  /\ Step([State EXCEPT !.spaceDown = FALSE])

FileLoaded(file) == Step(handleFileLoad(State, file))

Draw == Step(draw(State))

\* A frame drawn after a pause longer than a notification lives
DrawLater == Step(draw([State EXCEPT !.now = @ + TickMs]))

-----------------------------------------------------------------------------
(* The editing session: pointer, connect and history hotkeys, file loads   *)
(* and frames, in any order, with the camera at its default.  The pointer  *)
(* moves between two places of the canvas while no button is down, so a    *)
(* drag (a press on a node, then the release) leaves its node where it is  *)
(* and every scene is at rest.                                             *)

PA == <<100 * Px, 150 * Px>>
PB == <<300 * Px, 150 * Px>>
PC == <<200 * Px, 150 * Px>>

Pointer == {PA, PB}
Buttons == {"left", "right"}
Hotkeys == {"c", "escape", "ctrl+z", "ctrl+y"}

NodeData(p, id, lab) ==
  [x |-> p[1], y |-> p[2], id |-> id, label |-> Label(lab),
   speed |-> DefaultSpeed, friction |-> DefaultFriction, tx |-> p[1], ty |-> p[2]]

JsonFile(doc) == [type |-> "application", subtype |-> "json", parses |-> TRUE,
                  doc |-> doc]

FileText == [type |-> "text", subtype |-> "plain", parses |-> FALSE, doc |-> [x |-> 0]]
FileBroken == [type |-> "application", subtype |-> "json", parses |-> FALSE,
               doc |-> [x |-> 0]]
FileNoNodes == JsonFile([edges |-> <<>>])
FileNoEdges == JsonFile([nodes |-> <<NodeData(PB, 1, 1)>>])
\* Three nodes, the edges 1-3 and 2-3, and an edge to an id no node has
FileGraph == JsonFile([nodes |-> <<NodeData(PA, 1, 1), NodeData(PB, 2, 2),
                                   NodeData(PC, 3, 3)>>,
                       edges |-> <<<<1, 3>>, <<2, 3>>, <<2, 7>>>>])

Next ==
  \/ \E p \in Pointer : MouseMoved(p)
  \/ \E b \in Buttons : MousePressed(b)
  \/ MouseReleased
  \/ \E k \in Hotkeys : KeyPressed(k)
  \/ FileLoaded(FileGraph)
  \/ Draw
  \/ DrawLater

Init == InitAt(PA)

Spec == Init /\ [][Next]_vars

-----------------------------------------------------------------------------
(* The long session: from the empty scene, with the pointer at rest, the   *)
(* user clicks on empty space, removes the node under the pointer, undoes  *)
(* and redoes, as often as he likes and always after the frame that shows  *)
(* what is under the pointer.  No file is loaded.  Every click is          *)
(* recorded, so the undo stack fills up to HISTORY_LIMIT.                  *)

\* A frame drawn now would find no node under the pointer
NothingUnderPointer ==
  updateHoveredNode(getCanvasMousePos(State)).hoveredNode = Null

ClickEmpty ==
  /\ ~mouseIsPressed
  /\ hoveredNode = Null /\ NothingUnderPointer
  /\ StepDeep(mousePressed([State EXCEPT !.mouseIsPressed = TRUE,
                                         !.mouseButton = "left"]))

RightClickNode ==
  /\ ~mouseIsPressed
  /\ hoveredNode \in Range(nodes)
  /\ StepDeep(mousePressed([State EXCEPT !.mouseIsPressed = TRUE,
                                         !.mouseButton = "right"]))

Release ==
  /\ mouseIsPressed
  /\ StepDeep(mouseReleased([State EXCEPT !.mouseIsPressed = FALSE]))

UndoKey == StepDeep(keyPressed(State, "ctrl+z"))

RedoKey == StepDeep(keyPressed(State, "ctrl+y"))

Frame == StepDeep(draw(State))

FrameLater == StepDeep(draw([State EXCEPT !.now = @ + TickMs]))

NextHistory ==
  \/ ClickEmpty
  \/ RightClickNode
  \/ Release
  \/ UndoKey
  \/ RedoKey
  \/ Frame
  \/ FrameLater

SpecHistory == Init /\ [][NextHistory]_vars

-----------------------------------------------------------------------------
(* The import session: files of every kind are loaded, the camera zooms    *)
(* out and goes home, the pointer moves and removes nodes.                 *)

Files == {FileText, FileBroken, FileNoNodes, FileNoEdges, FileGraph}

CameraKeys == {"pagedown", "home"}

NextImport ==
  \/ \E p \in Pointer : MouseMoved(p)
  \/ MousePressed("right")
  \/ MouseReleased
  \/ \E k \in CameraKeys : KeyPressed(k)
  \/ \E f \in Files : FileLoaded(f)
  \/ Draw
  \/ DrawLater

SpecImport == Init /\ [][NextImport]_vars

-----------------------------------------------------------------------------
(* Properties of the editing session *)

\* The button b goes down with the pointer over the canvas
Pressed(b) ==
  mousePressed([State EXCEPT !.mouseIsPressed = TRUE, !.mouseButton = b])

\* q without its element e
Without(q, e) == SelectSeq(q, LAMBDA v : v # e)

\* C1: the node at position i of the collection (counted from 1) has id i,
\* in every state of the session.
C1_DenseIds == \A i \in 1..Len(nodes) : heap[nodes[i]].id = i

\* A node that was loaded as the third one now stands first, with id 1
C1_Renumbered ==
  /\ Len(nodes) >= 1
  /\ heap[nodes[1]].label = Label(3)
  /\ heap[nodes[1]].id = 1

\* C2: a secondary click on a hovered node of the collection removes that
\* node, keeps the other nodes in order, and keeps exactly the edges that
\* do not touch it, with their endpoints and in their order.
C2_DeleteCascade ==
  (hoveredNode \in Range(nodes) /\ ~OutsideCanvas(State)) =>
     LET t == Pressed("right")
     IN /\ t.nodes = Without(nodes, hoveredNode)
        /\ t.edges = SelectSeq(edges, LAMBDA e : e[1] # hoveredNode
                                                /\ e[2] # hoveredNode)

\* A delete has just been recorded: of the two edges the scene had, the one
\* that did not touch the removed node is the only edge left
C2_Deleted ==
  /\ Len(undoStack) >= 2
  /\ LET before == undoStack[Len(undoStack) - 1]
         after == Last(undoStack)
     IN /\ Len(after.nodes) = Len(before.nodes) - 1
        /\ Len(before.edges) = 2
        /\ Len(after.edges) = 1
        /\ createSnapshot(State) = after
  /\ \A i \in 1..Len(edges) : {edges[i][1], edges[i][2]} \subseteq Range(nodes)

\* The two ends of an edge, in either order
Ends(e) == {e[1], e[2]}

\* C3: no two edges join the same unordered pair of nodes, and a connect
\* attempt between two nodes that an edge already joins, in either
\* orientation, leaves the edges as they are.
C3_SingleEdge ==
  /\ \A i, j \in 1..Len(edges) : i # j => Ends(edges[i]) # Ends(edges[j])
  /\ (/\ isConnectingNode /\ ~OutsideCanvas(State)
      /\ \E i \in 1..Len(edges) : Ends(edges[i]) = {selectedNode, hoveredNode})
     => Pressed("left").edges = edges

\* C4: both endpoints of every edge are members of the node collection.
C4_EdgesInCollection ==
  \A i \in 1..Len(edges) : Ends(edges[i]) \subseteq Range(nodes)

\* C5: undo restores an entity model equal to the snapshot below the top of
\* the undo stack, and redo one equal to the snapshot on top of the redo
\* stack (node count, ids, positions, labels, edge id pairs).
C5_UndoRedoRestore ==
  /\ Len(undoStack) > 1 =>
       createSnapshot(undo(State)) = undoStack[Len(undoStack) - 1]
  /\ Len(redoStack) > 0 =>
       createSnapshot(redo(State)) = Last(redoStack)

\* t is the present state with one more notification and nothing else
\* changed in the scene, the history, the selection or the connect mode
Refused(t) ==
  /\ t.nodes = nodes /\ t.heap = heap /\ t.edges = edges
  /\ t.undoStack = undoStack /\ t.redoStack = redoStack
  /\ t.selectedNode = selectedNode /\ t.hoveredNode = hoveredNode
  /\ t.draggedNode = draggedNode /\ t.isConnectingNode = isConnectingNode
  /\ Len(t.toasts) = Len(toasts) + 1
  /\ SubSeq(t.toasts, 1, Len(toasts)) = toasts

\* C6: undo with at most one snapshot on the undo stack, and redo with an
\* empty redo stack, change nothing and push exactly one notification.
C6_RefusedUndoRedo ==
  /\ Len(undoStack) <= 1 => Refused(undo(State))
  /\ Len(redoStack) = 0 => Refused(redo(State))

\* A redo has just been turned down in a scene that has nodes, a selection
\* and nothing to undo either
C6_TurnedDown ==
  /\ Len(undoStack) = 1 /\ Len(redoStack) = 0
  /\ nodes # <<>> /\ selectedNode # Null
  /\ \E i \in 1..Len(toasts) : toasts[i].message = <<"Nothing to redo.">>

-----------------------------------------------------------------------------
(* Properties of the long session *)

\* The snapshot setup records: no nodes, no edges
EmptySnapshot == [nodes |-> <<>>, edges |-> <<>>]

\* C7, as stated: the undo stack is never empty and its bottom element is
\* the snapshot of the empty scene.
C7_SentinelAtBottom == undoStack # <<>> /\ undoStack[1] = EmptySnapshot

\* C8: undo can be repeated until the scene is empty again: whenever undo
\* has nothing left to undo, the scene has no nodes and no edges.
C8_UndoReachesEmpty ==
  Len(undoStack) <= 1 => nodes = <<>> /\ edges = <<>>

-----------------------------------------------------------------------------
(* Properties of the import session *)

\* The files whose import fails
FailingFiles == {FileText, FileBroken, FileNoNodes, FileNoEdges}

\* C9: the import of a file that is not JSON, does not parse, or lacks its
\* nodes or its edges leaves the nodes, the edges, the camera and both
\* history stacks as they were, and pushes a notification.
C9_FailedImportUntouched ==
  \A f \in FailingFiles :
     LET t == handleFileLoad(State, f)
     IN /\ createSnapshot(t) = createSnapshot(State)
        /\ t.zoom = zoom /\ t.offsetX = offsetX /\ t.offsetY = offsetY
        /\ t.undoStack = undoStack /\ t.redoStack = redoStack
        /\ Len(t.toasts) = Len(toasts) + 1

\* The ids of the nodes of a document
DocIds(doc) == {doc.nodes[i].id : i \in 1..Len(doc.nodes)}

\* C10: after the import of a well-formed file the scene is the file's
\* (its nodes, and its edges between ids of its nodes), zoom is 1, the
\* offset is (0,0), the undo stack holds exactly the snapshot of that scene
\* and the redo stack is empty; an undo that follows is refused: it leaves
\* scene and history as they are and pushes a notification.
C10_ImportReplaces ==
  LET doc == FileGraph.doc
      t == handleFileLoad(State, FileGraph)
      u == undo(t)
  IN /\ createSnapshot(t).nodes = doc.nodes
     /\ createSnapshot(t).edges =
          SelectSeq(doc.edges, LAMBDA e : {e[1], e[2]} \subseteq DocIds(doc))
     /\ t.zoom = Zu /\ t.offsetX = 0 /\ t.offsetY = 0
     /\ t.undoStack = <<createSnapshot(t)>> /\ t.redoStack = <<>>
     /\ createSnapshot(u) = createSnapshot(t)
     /\ u.undoStack = t.undoStack /\ u.redoStack = t.redoStack
     /\ u.toasts = Append(t.toasts, [message |-> <<"Nothing to undo.">>,
                                     createdAt |-> now,
                                     duration |-> ToastDuration])

\* A file has just been imported
C10_Imported ==
  /\ Len(nodes) = 3 /\ Len(edges) = 2
  /\ zoom = Zu /\ offsetX = 0 /\ offsetY = 0
  /\ Len(undoStack) = 1 /\ redoStack = <<>>
  /\ \E i \in 1..Len(toasts) :
        toasts[i].message = <<"Graph loaded successfully!">>

-----------------------------------------------------------------------------
(* Further properties of the editing session *)

\* The edges of the state s as pairs of positions in its node collection
\* (counted from 0; -1 for a node that is not in the collection)
EdgePositions(s) ==
  [i \in 1..Len(s.edges) |->
     <<indexOf(s.nodes, s.edges[i][1]), indexOf(s.nodes, s.edges[i][2])>>]

\* C11: in a scene with at least one node and one edge, restoring from the
\* snapshot createSnapshot produces gives the same number of nodes, the same
\* persisted fields node by node, and the same edges as pairs of positions
\* in the collection.
C11_ExportImportRoundTrip ==
  (Len(nodes) >= 1 /\ Len(edges) >= 1) =>
     LET t == restoreFromSnapshot(State, createSnapshot(State)).st
     IN /\ Len(t.nodes) = Len(nodes)
        /\ createSnapshot(t).nodes = createSnapshot(State).nodes
        /\ EdgePositions(t) = EdgePositions(State)


\* t has the nodes, the edges and both history stacks of the present state
Untouched(t) ==
  /\ t.nodes = nodes /\ t.heap = heap /\ t.edges = edges
  /\ t.undoStack = undoStack /\ t.redoStack = redoStack

\* t has one notification more than the present state
Notified(t) ==
  /\ Len(t.toasts) = Len(toasts) + 1
  /\ SubSeq(t.toasts, 1, Len(toasts)) = toasts

\* A primary click now is a connect attempt from the selected node
Connecting ==
  /\ isConnectingNode /\ ~OutsideCanvas(State)
  /\ selectedNode # Null /\ hoveredNode # Null

\* An edge joins the selected node and the hovered one
AlreadyJoined ==
  /\ selectedNode # hoveredNode
  /\ \E i \in 1..Len(edges) : Ends(edges[i]) = {selectedNode, hoveredNode}

\* A connect attempt onto a joined pair, and the connect button or the C key
\* with no node selected, leave the scene and the history as they are and
\* push one notification
DuplicateAndNoSelectionRejected ==
  /\ (Connecting /\ AlreadyJoined) =>
        Untouched(Pressed("left")) /\ Notified(Pressed("left"))
  /\ selectedNode = Null =>
        /\ Untouched(handleConnectButton(State))
        /\ Notified(handleConnectButton(State))
        /\ ~isConnectingNode =>
              /\ Untouched(keyPressed(State, "c"))
              /\ Notified(keyPressed(State, "c"))

\* C12, as stated: the three rejected connection actions (onto a joined
\* pair, onto the selected node itself, connect mode with no selection)
\* each leave nodes, edges and both history stacks unchanged and push a
\* notification.
C12_RejectionsNotify ==
  /\ DuplicateAndNoSelectionRejected
  /\ (Connecting /\ selectedNode = hoveredNode) =>
        Untouched(Pressed("left")) /\ Notified(Pressed("left"))

\* C12, amended: the same for the joined pair and the missing selection;
\* a connect attempt onto the selected node itself leaves nodes, edges and
\* both history stacks unchanged too, but pushes no notification, and the
\* selection and connect mode stay as they are.
C12_RejectionsLeaveScene ==
  /\ DuplicateAndNoSelectionRejected
  /\ (Connecting /\ selectedNode = hoveredNode) =>
        LET t == Pressed("left")
        IN /\ Untouched(t)
           /\ t.toasts = toasts
           /\ t.selectedNode = selectedNode /\ t.isConnectingNode

\* The selected node has just been clicked in connect mode: the button is
\* down, nothing is dragged, no notification is queued
C12_SelfClicked ==
  /\ isConnectingNode /\ selectedNode # Null /\ selectedNode = hoveredNode
  /\ mouseIsPressed /\ mouseButton = "left" /\ draggedNode = Null
  /\ toasts = <<>>


InCollection(ref) == ref = Null \/ indexOf(nodes, ref) >= 0

\* C13: no transient reference outlives its node: each of selectedNode,
\* hoveredNode and draggedNode is null or a member of the node collection.
C13_TransientsInCollection ==
  /\ InCollection(selectedNode)
  /\ InCollection(hoveredNode)
  /\ InCollection(draggedNode)


\* C14: no edge is ever a self-loop: a connect attempt whose target is the
\* selected node adds no edge, and every edge [a,b] has a different from b.
C14_NoSelfLoop ==
  /\ \A i \in 1..Len(edges) : edges[i][1] # edges[i][2]
  /\ selectedNode # Null =>
        attemptConnection(State, selectedNode).edges = edges


\* C15: the C hotkey toggles connect mode: with a node selected, pressing C
\* flips connect mode, so two consecutive presses return it to its value.
C15_HotkeyToggles ==
  selectedNode # Null =>
     LET once  == keyPressed(State, "c")
         twice == keyPressed(once, "c")
     IN /\ once.isConnectingNode = ~isConnectingNode
        /\ twice.isConnectingNode = isConnectingNode


-----------------------------------------------------------------------------
(* The camera session: wheel turns of either sign, small and far beyond    *)
(* the zoom range, slider moves, the zoom and reset hotkeys, imports that  *)
(* succeed and fail, and frames.  The pointer rests on the middle of the   *)
(* canvas, so the wheel and the hotkeys zoom about the same point.         *)

WheelDeltas == {-10000, -300, 300, 10000}

\* zoomSlider = createSlider(MIN_ZOOM, MAX_ZOOM, 1, 0.1)
SliderValues == {MIN_ZOOM, Zu, MAX_ZOOM}

ZoomKeys == {"pageup", "pagedown", "home"}

\* A graph of one node, in the middle of the canvas
FileOneNode == JsonFile([nodes |-> <<NodeData(PC, 1, 1)>>, edges |-> <<>>])

CameraFiles == {FileOneNode, FileBroken}

Wheel(delta) == Step(mouseWheel(State, delta))

Slider(v) == Step(handleZoom(State, v))

NextCamera ==
  \/ \E delta \in WheelDeltas : Wheel(delta)
  \/ \E v \in SliderValues : Slider(v)
  \/ \E combo \in ZoomKeys : KeyPressed(combo)
  \/ \E file \in CameraFiles : FileLoaded(file)
  \/ Draw
  \/ DrawLater

InitCamera == InitAt(PC)

SpecCamera == InitCamera /\ [][NextCamera]_vars

ZoomInRange(s) == MIN_ZOOM <= s.zoom /\ s.zoom <= MAX_ZOOM

\* C16: in every reachable state MIN_ZOOM <= zoom <= MAX_ZOOM, whatever
\* wheel deltas, slider inputs, zoom hotkeys, resets and imports are applied,
\* and wherever the pointer is when the wheel turns.
C16_ZoomInRange ==
  /\ ZoomInRange(State)
  /\ \A delta \in WheelDeltas, p \in Pointer :
        ZoomInRange(mouseWheel([State EXCEPT !.mouseX = p[1], !.mouseY = p[2]],
                               delta))

\* a wheel turn far beyond the range has left the zoom on a limit
C16_ZoomAtLimit == zoom \in {MIN_ZOOM, MAX_ZOOM} /\ offsetX # 0


-----------------------------------------------------------------------------
(* The layout session: primary clicks at two places less than two radii    *)
(* apart, pointer moves between them and frames, with overlap disabled.    *)
(* Two presses with no frame between them both find nothing hovered.       *)

\* 30 pixels from PA: outside a node made at PA, nearer than two radii
PN == <<130 * Px, 150 * Px>>

NearPointer == {PA, PN}

NextLayout ==
  \/ \E p \in NearPointer : MouseMoved(p)
  \/ MousePressed("left")
  \/ MouseReleased
  \/ Draw

SpecLayout == Init /\ [][NextLayout]_vars

\* A frame moves no node and changes no velocity
AtRest == draw(State).heap = heap

Dist2(a, b) == (a.x - b.x) * (a.x - b.x) + (a.y - b.y) * (a.y - b.y)

Apart(a, b) == Dist2(a, b) >= (2 * NodeRadius) * (2 * NodeRadius)

\* C17: with overlap disabled and no drag in progress, two nodes created
\* less than two radii apart end at a distance of at least two radii: once
\* the frames have brought them to rest they are that far apart.
C17_SeparatedAtRest ==
  (/\ isAllowOverlap = FALSE
   /\ draggedNode = Null
   /\ Len(nodes) = 2
   /\ AtRest)
    => Apart(heap[nodes[1]], heap[nodes[2]])


\* The handler's result t holds one more record than the state s it started
\* from, and that record is a snapshot of the scene t holds
RecordedOnce(s, t) == t.undoStack = Append(s.undoStack, createSnapshot(t))

\* The pointer is dragged to p, with a frame after each move, button held
DraggedTo(p) ==
  draw(mouseDragged(draw(mouseDragged(
         [State EXCEPT !.mouseX = p[1], !.mouseY = p[2]]))))

Released(s) == mouseReleased([s EXCEPT !.mouseIsPressed = FALSE])

\* C18: create, delete, a successful connect and the release that ends a
\* drag each push exactly one snapshot onto the undo stack, taken after the
\* mutation; a rejected connect pushes none.
C18_OneRecordAfterMutation ==
  /\ (~OutsideCanvas(State) /\ hoveredNode = Null /\ ~spaceDown) =>
        /\ Len(Pressed("left").nodes) = Len(nodes) + 1
        /\ RecordedOnce(State, Pressed("left"))
  /\ (~OutsideCanvas(State) /\ hoveredNode # Null) =>
        RecordedOnce(State, Pressed("right"))
  /\ (~OutsideCanvas(State) /\ hoveredNode # Null /\ isConnectingNode) =>
        IF Len(Pressed("left").edges) = Len(edges) + 1
        THEN RecordedOnce(State, Pressed("left"))
        ELSE /\ Pressed("left").edges = edges
             /\ Pressed("left").undoStack = undoStack
  /\ draggedNode # Null =>
        /\ RecordedOnce(State, Released(State))
        /\ \A p \in Pointer : RecordedOnce(DraggedTo(p), Released(DraggedTo(p)))

\* records have been made and a connect that succeeds is one click away
C18_ConnectAboutToSucceed ==
  /\ Connecting
  /\ Len(Pressed("left").edges) = Len(edges) + 1
  /\ Len(undoStack) >= 2


\* The results of the gestures that record, from the current state: a
\* create, a delete, a connect that adds an edge, a release that ends a drag
RecordedGestures ==
  {t \in {Pressed("left"), Pressed("right"), Released(State)} :
      t.undoStack # undoStack}

\* C19: recording invalidates the redo branch: right after any recorded
\* gesture the redo stack is empty, and a redo issued then is refused.
C19_RecordClearsRedo ==
  \A t \in RecordedGestures :
     /\ t.redoStack = <<>>
     /\ LET u == redo(t)
        IN /\ u.nodes = t.nodes /\ u.heap = t.heap /\ u.edges = t.edges
           /\ u.undoStack = t.undoStack /\ u.redoStack = <<>>
           /\ Len(u.toasts) = Len(t.toasts) + 1

\* an undo has left a redo branch, and a gesture that records is one step away
C19_RedoBranchAboutToGo == redoStack # <<>> /\ RecordedGestures # {}


-----------------------------------------------------------------------------
(* Restores, gestures, frames and notifications *)

Cleared(t) ==
  /\ t.selectedNode = Null
  /\ t.hoveredNode = Null
  /\ t.draggedNode = Null
  /\ ~t.isConnectingNode

\* The files of the session whose import succeeds from the state s
Importable(s, files) ==
  {file \in files : /\ file.type = "application" /\ file.subtype = "json"
                    /\ file.parses
                    /\ ~restoreFromSnapshot(s, file.doc).threw}

\* C21: every successful restore (undo, redo, successful import) leaves
\* selectedNode, hoveredNode and draggedNode null and connect mode off,
\* whatever they were before; a mouse release after an undo issued during a
\* drag records nothing.
C21_RestoreClearsTransients ==
  /\ Len(undoStack) > 1 =>
        /\ Cleared(undo(State))
        /\ Released(undo(State)).undoStack = undo(State).undoStack
        /\ Released(undo(State)).redoStack = undo(State).redoStack
  /\ redoStack # <<>> => Cleared(redo(State))
  /\ \A file \in Importable(State, {FileGraph}) :
        Cleared(handleFileLoad(State, file))

\* a drag is in progress over a hovered node and there is a record to undo
C21_UndoMidDrag ==
  /\ draggedNode # Null
  /\ hoveredNode # Null
  /\ mouseIsPressed
  /\ Len(undoStack) > 1


\* The snapshots a restore can be handed in the current state: the documents
\* of the well-formed files and the records of both history stacks
Restorable ==
  {file.doc : file \in Importable(State, Files)}
    \cup Range(undoStack) \cup Range(redoStack)

\* C22: restoring a snapshot with an edge whose endpoint id matches no node
\* of the snapshot drops exactly those edges and keeps every other edge, in
\* order, between the freshly made nodes with the stored ids; the restore
\* ends without an error and without a notification about the dropped edge.
C22_DanglingEdgesDropped ==
  /\ \A snapshot \in Restorable :
        LET r == restoreFromSnapshot(State, snapshot)
            t == r.st
        IN /\ ~r.threw
           /\ createSnapshot(t).edges =
                SelectSeq(snapshot.edges,
                          LAMBDA e : {e[1], e[2]} \subseteq DocIds(snapshot))
           /\ \A i \in 1..Len(t.edges) :
                 /\ Ends(t.edges[i]) \subseteq Range(t.nodes)
                 /\ Ends(t.edges[i]) \cap Range(nodes) = {}
           /\ t.toasts = toasts
  /\ handleFileLoad(State, FileGraph).toasts =
        createToast(State, <<"Graph loaded successfully!">>).toasts

\* the file whose third edge names the id 7 has just been imported: two
\* edges are left and the one notification is the success message
C22_DanglingDropped ==
  /\ createSnapshot(State).edges = <<<<1, 3>>, <<2, 3>>>>
  /\ Len(toasts) = 1
  /\ toasts[1].message = <<"Graph loaded successfully!">>
  /\ undoStack = <<createSnapshot(State)>>


\* The results of every handler other than a primary press, from the
\* current state
OtherHandlers ==
  {Pressed("right"), Released(State), draw(State)}
    \cup {keyPressed(State, combo) : combo \in Hotkeys}
    \cup {handleFileLoad(State, FileGraph)}

OverUnselected ==
  /\ ~OutsideCanvas(State)
  /\ hoveredNode # Null
  /\ selectedNode # hoveredNode
  /\ ~isConnectingNode

\* C23, as stated: a drag begins only on a primary press over a hovered node
\* that was already the selected node, while not in connect mode; a primary
\* press over a hovered node that was not yet selected selects it and begins
\* no drag.
C23_DragOnlyFromSelected ==
  /\ \A t \in OtherHandlers : draggedNode = Null => t.draggedNode = Null
  /\ (draggedNode = Null /\ Pressed("left").draggedNode # Null) =>
        /\ hoveredNode # Null
        /\ selectedNode = hoveredNode
        /\ ~isConnectingNode
  /\ OverUnselected =>
        /\ Pressed("left").selectedNode = hoveredNode
        /\ Pressed("left").draggedNode = draggedNode

\* C23, amended: a drag begins only on a primary press over a hovered node
\* while not in connect mode, whether or not the node was selected before;
\* a primary press over a hovered node that was not yet selected selects it
\* and begins the drag of it in the same press.
C23_DragOnPressOverNode ==
  /\ \A t \in OtherHandlers : draggedNode = Null => t.draggedNode = Null
  /\ (draggedNode = Null /\ Pressed("left").draggedNode # Null) =>
        /\ hoveredNode # Null
        /\ ~isConnectingNode
        /\ Pressed("left").draggedNode = hoveredNode
        /\ Pressed("left").selectedNode = hoveredNode
  /\ OverUnselected =>
        /\ Pressed("left").selectedNode = hoveredNode
        /\ Pressed("left").draggedNode = hoveredNode

\* the pointer is over a node of the scene that is not the selected one, no
\* button is down, and the press that comes selects and drags it
C23_PressOverUnselected ==
  /\ OverUnselected
  /\ ~mouseIsPressed
  /\ draggedNode = Null
  /\ hoveredNode \in Range(nodes)
  /\ Pressed("left").draggedNode = hoveredNode


-----------------------------------------------------------------------------
(* The drag session: primary clicks that create and pick up nodes, drags   *)
(* from where the pointer starts to the other place, releases and frames,  *)
(* with overlap disabled as it is after setup.                             *)

DragTargets == {PB}

NextDrag ==
  \/ \E p \in DragTargets : MouseDragged(p)
  \/ MousePressed("left")
  \/ MouseReleased
  \/ Draw

SpecDrag == Init /\ [][NextDrag]_vars

\* C24: in every frame and for every node the velocity that was added to the
\* position lies in [-5, 5] on both axes, whether overlap is allowed or not
\* and however far the node's target is (update adds the velocity it leaves
\* in vx, vy, so after every frame the node holds the velocity it moved by).
C24_VelocityClamped ==
  \A i \in 1..Len(nodes) :
     /\ Abs(heap[nodes[i]].vx) <= MaxSpeed
     /\ Abs(heap[nodes[i]].vy) <= MaxSpeed


-----------------------------------------------------------------------------
(* The notification session: hotkeys that are refused on the empty scene   *)
(* (each pushes a notification), time that passes, and frames.             *)

\* On the empty scene: "Nothing to undo.", "Nothing to redo.", "Please
\* select a starting node first."
RefusedKeys == {"ctrl+z", "ctrl+y", "c"}

\* millis() advances by one of these between events: three of the first
\* make exactly the duration of a notification
TickSteps == {1000, ToastDuration + 1}

\* The session is followed while at most MaxQueued notifications are queued
\* and the oldest is at most MaxAge old
MaxQueued == 3
MaxAge == 7000

StepQueued(r) ==
  \E t \in {Normalize(r)} :
     /\ Len(t.toasts) <= MaxQueued
     /\ t.now <= MaxAge
     /\ Assign(t)

RefusedKey(combo) == StepQueued(keyPressed(State, combo))

Tick(d) ==
  /\ toasts # <<>>
  /\ StepQueued([State EXCEPT !.now = @ + d])

FrameQueued == StepQueued(draw(State))

NextToasts ==
  \/ \E combo \in RefusedKeys : RefusedKey(combo)
  \/ \E d \in TickSteps : Tick(d)
  \/ FrameQueued

SpecToasts == Init /\ [][NextToasts]_vars

Expired(toast, t) == t - toast.createdAt > toast.duration

\* C25: notifications expire by time only: a frame keeps every queued
\* notification with now - createdAt <= duration and removes every one with
\* now - createdAt > duration, so the first frame after a notification's
\* time is up removes it; what a frame leaves is the queue without its
\* expired entries, in order: removing one never skips or removes another.
C25_ExpireByTimeOnly ==
  LET left == draw(State).toasts
  IN /\ \A i \in 1..Len(toasts) :
          Expired(toasts[i], now) <=> (\A j \in 1..Len(left) : left[j] # toasts[i])
     /\ left = SelectSeq(toasts, LAMBDA toast : ~Expired(toast, now))
     /\ \A d \in TickSteps, i \in 1..Len(left) :
          Expired(left[i], now + d) =>
             \A j \in 1..Len(draw([draw(State) EXCEPT !.now = now + d]).toasts) :
                draw([draw(State) EXCEPT !.now = now + d]).toasts[j] # left[i]

\* two notifications next to each other have expired, a third has not, and
\* the last one is exactly at its duration
C25_TwoExpiredOneDue ==
  /\ Len(toasts) = 3
  /\ Expired(toasts[1], now) /\ Expired(toasts[2], now)
  /\ now - toasts[3].createdAt = toasts[3].duration


\* C26: connect mode always has a source node: in every state of the
\* session, isConnectingNode implies that selectedNode is not null.
C26_ConnectHasSource == isConnectingNode => selectedNode # Null


\* C27: the top of the undo stack is the current scene: in every state a
\* handler leaves, the top snapshot has the same node count, node ids,
\* labels and edge id pairs as a fresh snapshot of the scene.
C27_TopIsScene ==
  LET top == Last(undoStack)
      scene == createSnapshot(State)
  IN /\ Len(top.nodes) = Len(scene.nodes)
     /\ \A i \in 1..Len(scene.nodes) :
           i <= Len(top.nodes) =>
              /\ top.nodes[i].id = scene.nodes[i].id
              /\ top.nodes[i].label = scene.nodes[i].label
     /\ top.edges = scene.edges

=============================================================================
